---------------------------- MODULE Spec2Model ----------------------------
(***************************************************************************)
(* Model of the "Ziggy" voice assistant, src/voice_assist/                 *)
(* voice_assistant.py: the main control thread (run, listen_for_wake_word, *)
(* handle_voice_command, route_query and the handlers it calls, the        *)
(* permission gate, speak / speak_with_interruption) and the background    *)
(* interruption listener thread (listen_for_interruption).                 *)
(*                                                                         *)
(* Texts are TLA+ strings; the text functions (lower, strip, substring     *)
(* test, sentence splitting) are computed character by character as the    *)
(* Python code computes them.  The environment (speech recogniser, audio   *)
(* device, HTTP endpoints, text-to-speech process) supplies its results    *)
(* nondeterministically from small sets.                                   *)
(***************************************************************************)
EXTENDS Integers, Sequences, FiniteSets, TLC

\* ------------------------------------------------------------------------
\* Program constants
\* ------------------------------------------------------------------------

\* listen_for_wake_word: max_retries = 3
MaxRetries == 3

\* listen_for_wake_word: for attempt in range(3)
OpenAttempts == 3

\* speak: len(text) < 100 is spoken without interruption
InterruptThreshold == 100

\* split_into_sentences: len(current_sentence.split()) >= 5
MinWords == 5

\* fetch_and_read_results: len(clean_answer) > 300
AnswerLimit == 300

\* ------------------------------------------------------------------------
\* Bounds of the model
\* ------------------------------------------------------------------------

\* Largest number of sentences in a long reply of the language model.
MaxSentences == 3

\* Largest number of pieces of a text handed to split_into_sentences
MaxPieces == 3

\* Largest number of methods of the class handed to cluster_evenly
MaxMethods == 4

\* Largest max_elements_per_shard
MaxShard == 2

\* ------------------------------------------------------------------------
\* Text functions
\* ------------------------------------------------------------------------

wake_word == "ziggy"

shutdown_phrase == "take a break"

\* s[i] as a one-character string
Ch(s, i) == SubSeq(s, i, i)

\* Python: sub in s
Contains(s, sub) ==
    \E i \in 0..(Len(s) - Len(sub)) : SubSeq(s, i + 1, i + Len(sub)) = sub

\* Python: s.startswith(p)
StartsWith(s, p) == Len(p) <= Len(s) /\ SubSeq(s, 1, Len(p)) = p

\* Python: any(word in s for word in words)
AnyIn(words, s) == \E w \in words : Contains(s, w)

UpperCase == "ABCDEFGHIJKLMNOPQRSTUVWXYZ"

LowerCase == "abcdefghijklmnopqrstuvwxyz"

LowerCh(c) ==
    IF \E k \in 1..Len(UpperCase) : Ch(UpperCase, k) = c
    THEN Ch(LowerCase, CHOOSE k \in 1..Len(UpperCase) : Ch(UpperCase, k) = c)
    ELSE c

\* Python: s.lower(), computed by halves
RECURSIVE Lower(_)
Lower(s) ==
    IF Len(s) = 0 THEN ""
    ELSE IF Len(s) = 1 THEN LowerCh(s)
    ELSE LET h == Len(s) \div 2
         IN Lower(SubSeq(s, 1, h)) \o Lower(SubSeq(s, h + 1, Len(s)))

IsSpace(c) == c = " "

SetMin(S) == CHOOSE k \in S : \A m \in S : k <= m

SetMax(S) == CHOOSE k \in S : \A m \in S : k >= m

NonSpaces(s) == {i \in 1..Len(s) : ~IsSpace(Ch(s, i))}

\* Python: s.strip()
Strip(s) ==
    IF NonSpaces(s) = {} THEN ""
    ELSE SubSeq(s, SetMin(NonSpaces(s)), SetMax(NonSpaces(s)))

\* Python: len(s.split()), the number of maximal runs of non-space characters
WordCount(s) ==
    Cardinality({i \in 1..Len(s) :
        ~IsSpace(Ch(s, i)) /\ (i = 1 \/ IsSpace(Ch(s, i - 1)))})

\* Python: s.replace(old, new), every non-overlapping occurrence, left to right
RECURSIVE ReplaceAll(_, _, _)
ReplaceAll(s, old, new) ==
    IF ~Contains(s, old) THEN s
    ELSE LET i == CHOOSE k \in 0..(Len(s) - Len(old)) :
                     /\ SubSeq(s, k + 1, k + Len(old)) = old
                     /\ \A m \in 0..(k - 1) : SubSeq(s, m + 1, m + Len(old)) /= old
         IN SubSeq(s, 1, i) \o new
            \o ReplaceAll(SubSeq(s, i + Len(old) + 1, Len(s)), old, new)

IsDigit(c) == \E k \in 1..10 : Ch("0123456789", k) = c

\* re.findall(r'-?\d+\.?\d*', text) is non-empty exactly when text holds a digit
HasNumber(s) == \E i \in 1..Len(s) : IsDigit(Ch(s, i))


\* ------------------------------------------------------------------------
\* split_into_sentences
\* ------------------------------------------------------------------------

IsTerminator(c) == c = "." \/ c = "!" \/ c = "?"

\* re.split(r'[.!?]+', text): the pieces between maximal runs of
\* terminators; i is where the next piece starts
RECURSIVE SplitFrom(_, _)
SplitFrom(s, i) ==
    LET terms == {k \in i..Len(s) : IsTerminator(Ch(s, k))}
    IN IF terms = {} THEN <<SubSeq(s, i, Len(s))>>
       ELSE LET t == SetMin(terms)
                rest == {k \in t..Len(s) : ~IsTerminator(Ch(s, k))}
                j == IF rest = {} THEN Len(s) + 1 ELSE SetMin(rest)
            IN <<SubSeq(s, i, t - 1)>> \o SplitFrom(s, j)

\* [s.strip() for s in sentences if s.strip()]
RECURSIVE StripNonEmpty(_)
StripNonEmpty(pieces) ==
    IF pieces = <<>> THEN <<>>
    ELSE (IF Strip(Head(pieces)) = "" THEN <<>> ELSE <<Strip(Head(pieces))>>)
         \o StripNonEmpty(Tail(pieces))

\* The loop that rejoins short sentences: "current_sentence" is cur,
\* "cleaned_sentences" is out.  The test sentence == sentences[-1] compares
\* texts, not positions.
RECURSIVE MergeFrom(_, _, _, _)
MergeFrom(sents, k, cur, out) ==
    IF k > Len(sents) THEN out
    ELSE LET cur2 == cur \o sents[k] \o ". "
         IN IF WordCount(cur2) >= MinWords \/ sents[k] = sents[Len(sents)]
            THEN MergeFrom(sents, k + 1, "", Append(out, Strip(cur2)))
            ELSE MergeFrom(sents, k + 1, cur2, out)

split_into_sentences(text) ==
    LET sents == StripNonEmpty(SplitFrom(text, 1))
    IN IF sents = <<>> THEN <<text>>
       ELSE LET cleaned == MergeFrom(sents, 1, "", <<>>)
            IN IF cleaned = <<>> THEN <<text>> ELSE cleaned

\* ------------------------------------------------------------------------
\* handle_conversion
\* ------------------------------------------------------------------------

DigitVal(c) == CHOOSE k \in 0..9 : Ch("0123456789", k + 1) = c

FirstDigitAt(s) ==
    CHOOSE i \in 1..Len(s) :
        IsDigit(Ch(s, i)) /\ \A j \in 1..(i - 1) : ~IsDigit(Ch(s, j))

RECURSIVE DigitsValue(_, _, _)
DigitsValue(s, i, acc) ==
    IF i > Len(s) \/ ~IsDigit(Ch(s, i)) THEN acc
    ELSE DigitsValue(s, i + 1, 10 * acc + DigitVal(Ch(s, i)))

\* float(numbers[0]) for a text whose first number is a whole number (the
\* utterances of the model hold whole numbers only): the first match of
\* -?\d+\.?\d* starts at the first digit, or at a '-' right before it.
FirstNumber(s) ==
    LET i == FirstDigitAt(s)
        v == DigitsValue(s, i, 0)
    IN IF i > 1 /\ Ch(s, i - 1) = "-" THEN 0 - v ELSE v

Abs(n) == IF n < 0 THEN 0 - n ELSE n

\* num/den rounded to the nearest integer (no input of the model is a tie)
RoundDiv(num, den) ==
    LET q == (2 * Abs(num) + den) \div (2 * den)
    IN IF num < 0 THEN 0 - q ELSE q

RECURSIVE PadZeros(_, _)
PadZeros(str, width) == IF Len(str) >= width THEN str ELSE PadZeros("0" \o str, width)

\* A number given in 10^-places units, printed as Python's f"{x:.{places}f}"
FormatFixed(units, places) ==
    LET scale == IF places = 1 THEN 10 ELSE 100
        whole == Abs(units) \div scale
        frac  == Abs(units) % scale
    IN (IF units < 0 THEN "-" ELSE "")
       \o ToString(whole) \o "." \o PadZeros(ToString(frac), places)

\* str(float(n)) for a whole number n
FormatFloat(n) == FormatFixed(10 * n, 1)

\* text_lower.split(unit)[0]: the text before the first occurrence of unit
BeforeFirst(s, unit) ==
    LET i == CHOOSE k \in 0..(Len(s) - Len(unit)) :
                 /\ SubSeq(s, k + 1, k + Len(unit)) = unit
                 /\ \A m \in 0..(k - 1) : SubSeq(s, m + 1, m + Len(unit)) /= unit
    IN SubSeq(s, 1, i)

None == "<None>"

\* A variant of handle_conversion that converts in the direction of the unit
\* named last
handle_conversion_towards_first(text) ==
    LET text_lower == Lower(text)
    IN IF Contains(text_lower, "celsius") /\ Contains(text_lower, "fahrenheit")
          /\ HasNumber(text)
       THEN IF ~Contains(BeforeFirst(text_lower, "fahrenheit"), "celsius")
            THEN LET celsius == FirstNumber(text)
                 IN FormatFloat(celsius) \o " degrees Celsius is "
                    \o FormatFixed(18 * celsius + 320, 1) \o " degrees Fahrenheit"
            ELSE LET fahrenheit == FirstNumber(text)
                 IN FormatFloat(fahrenheit) \o " degrees Fahrenheit is "
                    \o FormatFixed(RoundDiv((fahrenheit - 32) * 50, 9), 1)
                    \o " degrees Celsius"
       ELSE IF Contains(text_lower, "feet") /\ Contains(text_lower, "meters")
               /\ HasNumber(text)
       THEN IF ~Contains(BeforeFirst(text_lower, "meters"), "feet")
            THEN LET feet == FirstNumber(text)
                 IN FormatFloat(feet) \o " feet is "
                    \o FormatFixed(RoundDiv(feet * 3048, 100), 2) \o " meters"
            ELSE LET meters == FirstNumber(text)
                 IN FormatFloat(meters) \o " meters is "
                    \o FormatFixed(RoundDiv(meters * 1000000, 3048), 2) \o " feet"
       ELSE None

\* handle_conversion(text): the answer, or None
handle_conversion(text) ==
    LET text_lower == Lower(text)
    IN IF Contains(text_lower, "celsius") /\ Contains(text_lower, "fahrenheit")
          /\ HasNumber(text)
       THEN IF Contains(BeforeFirst(text_lower, "fahrenheit"), "celsius")
            THEN LET celsius == FirstNumber(text)
                 IN FormatFloat(celsius) \o " degrees Celsius is "
                    \o FormatFixed(18 * celsius + 320, 1) \o " degrees Fahrenheit"
            ELSE LET fahrenheit == FirstNumber(text)
                 IN FormatFloat(fahrenheit) \o " degrees Fahrenheit is "
                    \o FormatFixed(RoundDiv((fahrenheit - 32) * 50, 9), 1)
                    \o " degrees Celsius"
       ELSE IF Contains(text_lower, "feet") /\ Contains(text_lower, "meters")
               /\ HasNumber(text)
       THEN IF Contains(BeforeFirst(text_lower, "meters"), "feet")
            THEN LET feet == FirstNumber(text)
                 IN FormatFloat(feet) \o " feet is "
                    \o FormatFixed(RoundDiv(feet * 3048, 100), 2) \o " meters"
            ELSE LET meters == FirstNumber(text)
                 IN FormatFloat(meters) \o " meters is "
                    \o FormatFixed(RoundDiv(meters * 1000000, 3048), 2) \o " feet"
       ELSE None


\* ------------------------------------------------------------------------
\* Fixed texts of the program
\* ------------------------------------------------------------------------

MsgAck == "Yes?"

MsgNoAudio == "I didn't hear anything"

MsgNotUnderstood == "I couldn't understand that"

MsgBye == "Okay, bye!"

MsgPermission == "I cannot answer that from my local resources. Do you want me to check online?"

MsgStayingLocal == "Okay, staying local. Is there anything else I can help you with?"

MsgOptions == "Would you like me to read you the answer, or open a browser window?"

MsgSearching == "Let me search for that"

MsgNoDirectAnswer == "I couldn't find a direct answer. Let me open a browser search for you."

MsgSearchTrouble == "I had trouble searching. Let me open a browser for you instead."

MsgMoreDetails == "... would you like me to open a browser for more details?"

MsgBrowserFailed == "Could not open web browser"

MsgStickLocal == "Okay, I'll stick to what I know locally. Is there anything else I can help you with from my local knowledge?"

MsgNeedOnline == "I need online resources"

MsgCouldNotProcess == "Sorry, I couldn't process that request"

MsgQueryError == "Sorry, there was an error processing your request"

\* open_browser_search: f"Opened browser search for {query}"
MsgOpenedBrowser(query) == "Opened browser search for " \o query

\* get_time: f"The time is {now.strftime('%I:%M %p')}"
get_time(clock) == "The time is " \o clock

\* get_date: f"Today is {now.strftime('%A, %B %d, %Y')}"
get_date(day) == "Today is " \o day

\* ------------------------------------------------------------------------
\* request_online_permission: classification of the transcribed answer
\* ------------------------------------------------------------------------

affirmative_words == {"yes", "yeah", "yep", "okay", "ok", "sure", "go ahead", "please"}

negative_words == {"no", "nope", "don't", "stop", "cancel", "nevermind"}

\* The branch taken for a transcribed answer: the affirmative words are tested
\* first, then the negative words.
PermissionUnclearAsGranted(response_text) ==
    LET response_lower == Strip(Lower(response_text))
    IN IF AnyIn(affirmative_words, response_lower) THEN "Granted"
       ELSE IF AnyIn(negative_words, response_lower) THEN "Denied"
       ELSE "Granted"

PermissionState(response_text) ==
    LET response_lower == Strip(Lower(response_text))
    IN IF AnyIn(affirmative_words, response_lower) THEN "Granted"
       ELSE IF AnyIn(negative_words, response_lower) THEN "Denied"
       ELSE "Unclear"

PermissionReturnUnlessDenied(state) == state /= "Denied"

\* The value request_online_permission returns for each branch: True only for
\* Granted; Denied, Unclear and NoResponse (recording failed) all return False.
PermissionReturn(state) == state = "Granted"

\* ------------------------------------------------------------------------
\* web_search: classification of the read-or-browse answer
\* ------------------------------------------------------------------------

read_words == {"read", "tell", "say", "speak", "answer"}

browse_words == {"browser", "open", "window", "firefox", "chrome"}

\* "read" also when the answer is unclear (the default)
SearchChoice(response_text) ==
    LET response_lower == Strip(Lower(response_text))
    IN IF AnyIn(read_words, response_lower) THEN "read"
       ELSE IF AnyIn(browse_words, response_lower) THEN "browse"
       ELSE "read"

\* ------------------------------------------------------------------------
\* route_query: the category that decides
\* ------------------------------------------------------------------------

time_words == {"time", "clock", "what time"}

date_words == {"date", "today", "what day"}

unit_words == {"celsius", "fahrenheit", "meters", "feet", "pounds", "kilograms"}

RouteCategoryTimeFirst(text) ==
    LET text_lower == Strip(Lower(text))
    IN IF AnyIn(time_words, text_lower) THEN "time"
       ELSE IF Contains(text_lower, shutdown_phrase) THEN "shutdown"
       ELSE IF AnyIn(date_words, text_lower) THEN "date"
       ELSE IF (Contains(text_lower, "convert") \/ AnyIn(unit_words, text_lower))
               /\ handle_conversion(text) /= None THEN "conversion"
       ELSE IF StartsWith(text_lower, "search") \/ Contains(text_lower, "look up")
            THEN "search"
       ELSE "ai"

RouteCategoryNoFallThrough(text) ==
    LET text_lower == Strip(Lower(text))
    IN IF Contains(text_lower, shutdown_phrase) THEN "shutdown"
       ELSE IF AnyIn(time_words, text_lower) THEN "time"
       ELSE IF AnyIn(date_words, text_lower) THEN "date"
       ELSE IF Contains(text_lower, "convert") \/ AnyIn(unit_words, text_lower)
            THEN "conversion"
       ELSE IF StartsWith(text_lower, "search") \/ Contains(text_lower, "look up")
            THEN "search"
       ELSE "ai"

RouteCategoryDateFirst(text) ==
    LET text_lower == Strip(Lower(text))
    IN IF Contains(text_lower, shutdown_phrase) THEN "shutdown"
       ELSE IF AnyIn(date_words, text_lower) THEN "date"
       ELSE IF AnyIn(time_words, text_lower) THEN "time"
       ELSE IF (Contains(text_lower, "convert") \/ AnyIn(unit_words, text_lower))
               /\ handle_conversion(text) /= None THEN "conversion"
       ELSE IF StartsWith(text_lower, "search") \/ Contains(text_lower, "look up")
            THEN "search"
       ELSE "ai"

\* route_query: the categories in the order of the code's if statements; a
\* conversion term decides only when handle_conversion returns a result
RouteCategory(text) ==
    LET text_lower == Strip(Lower(text))
    IN IF Contains(text_lower, shutdown_phrase) THEN "shutdown"
       ELSE IF AnyIn(time_words, text_lower) THEN "time"
       ELSE IF AnyIn(date_words, text_lower) THEN "date"
       ELSE IF (Contains(text_lower, "convert") \/ AnyIn(unit_words, text_lower))
               /\ handle_conversion(text) /= None THEN "conversion"
       ELSE IF StartsWith(text_lower, "search") \/ Contains(text_lower, "look up")
            THEN "search"
       ELSE "ai"

\* web_search's argument: text_lower.replace('search', '').replace('look up', '').strip()
SearchQuery(text) ==
    Strip(ReplaceAll(ReplaceAll(Strip(Lower(text)), "search", ""), "look up", ""))


\* fetch_and_read_results: the answer as it is returned for speech
CleanAnswer(answer) ==
    LET clean_answer == ReplaceAll(answer, "  ", " ")
    IN IF Len(clean_answer) > AnswerLimit
       THEN SubSeq(clean_answer, 1, AnswerLimit) \o MsgMoreDetails
       ELSE clean_answer

\* ------------------------------------------------------------------------
\* What the environment can supply
\* ------------------------------------------------------------------------

\* Final transcripts the recogniser reports while listening for the wake word
\* ("" stands for a result without text).
ListenTranscripts == {"", "hello there", "ziggy", "take a break", "hey ziggy take a break"}

\* Transcripts of a recorded command ("" also when speech_to_text fails).
Utterances ==
    {"", "explain quantum computing", "convert 5 pounds", "what time is it",
     "what is the date today", "what is 32 fahrenheit in celsius",
     "how many meters in 10 feet", "32 celsius to fahrenheit", "search cats", "look up ubuntu release date", "please take a break now"}

\* Texts handed to route_query: the cases of test_router.py, the shutdown
\* phrase inside other text and in other letter cases, and texts that hold
\* the words of several categories at once.
RouterUtterances ==
    {"what time is it", "What's the current time?", "tell me the time",
     "what day is today", "what's today's date",
     "convert 32 fahrenheit to celsius", "how many meters in 10 feet",
     "32 celsius to fahrenheit", "search for weather",
     "look up Ubuntu 24.04 release date", "what is 2 + 2",
     "calculate 15 times 37", "explain quantum computing",
     "write a poem about computers", "how do I fix a GPU driver issue",
     "what's the meaning of life", "hello", "help me", "take a break",
     "please take a break now", "Please TAKE A BREAK now", "Take A Break",
     "time to take a break", "what time should i take a break",
     "take a break today", "convert 5 feet to meters then take a break",
     "search how to take a break", "look up take a break",
     "Search the time to Take A Break today in meters", "take a brake",
     "take break", "give me a break", "what is the time and date today",
     "is there a clock in here", "sometimes i wonder", "update the list",
     "what day is it", "search for the time in tokyo",
     "look up todays weather", "search clock repair", "convert the date",
     "convert 5 pounds", "convert dollars to euros",
     "how heavy is 3 kilograms", "10 meters",
     "what is 32 fahrenheit in celsius", "100 celsius in fahrenheit please",
     "search 10 meters", "search 10 meters in feet",
     "look up 5 pounds in kilograms", "look up convert",
     "fahrenheit and celsius", "search cats", "research cats",
     "please search cats", "look up ubuntu release date",
     "i will look up the answer", "  search dogs  ", "SEARCH DOGS",
     "lookup cats"}

\* Transcripts of the answer to the permission question.
PermissionTranscripts ==
    {"yes", "sure", "go ahead", "no", "nope", "cancel", "", "maybe", "hmm",
     "no please don't"}

\* Transcripts of the answer to the read-or-browse question.
ChoiceTranscripts == {"", "read it to me", "open a browser", "whatever"}

ReplySentence == "This sentence of the reply has enough words in it. "

RECURSIVE LongReply(_)
LongReply(n) == IF n = 0 THEN "" ELSE ReplySentence \o LongReply(n - 1)

\* Contents of a 200 reply of the chat endpoint.
AiReplies ==
    {"Quantum computers use qubits. ",
     "I need online resources to answer that properly."}
    \cup {LongReply(n) : n \in 2..MaxSentences}

\* AbstractText / Answer of a 200 reply of the search API ("" : neither).
SearchAnswers == {"", "Cats are small mammals.", LongReply(2 * MaxSentences)}

Clocks == {"09:30 AM", "11:05 PM"}

Days == {"Tuesday, November 03, 2026"}


\* ------------------------------------------------------------------------
\* State
\* ------------------------------------------------------------------------

VARIABLES
    pc,             \* position of the main thread
    is_listening,   \* self.is_listening
    audio,          \* self.audio: "ready", or "terminated" (audio.terminate() was called)
    retry_count,    \* listen_for_wake_word: retry_count
    attempt,        \* listen_for_wake_word: attempt of the open loop
    transcript,     \* listen_for_wake_word: transcript ("" outside the call)
    utter,          \* handle_voice_command: command_text
    route,          \* the category route_query decided on ("none": not routed)
    response,       \* the text route_query returned
    permRet,        \* the caller of request_online_permission: "web" or "ai"
    permText,       \* request_online_permission: response_text
    permState,      \* request_online_permission: the branch taken
    spoken,         \* the text last handed to espeak
    sentences,      \* speak_with_interruption: sentences
    seg,            \* speak_with_interruption: position in sentences (from 1)
    proc,           \* the espeak process of the current sentence
    queue,          \* interruption_queue holds an item
    stop,           \* stop_speaking / stop_event is set
    lpc,            \* position of the listener thread
    lheard,         \* listen_for_interruption: transcript
    trace,          \* history: permission results and network actions of the turn
    recStream,      \* record_command: the capture stream of the turn's latest call:
                    \* "none" (not opened), "closed", or "open" (left open on return)
    shutdownHeard,  \* history: the listener recognised the shutdown phrase
                    \* (without the wake word) while the response was playing
    lset,           \* history: the listener set the stop event in this call
    interrupted,    \* history: speak returned True and no recording began since
    methods,        \* cluster_evenly: the method names of elements['methods']
    max_elements_per_shard,   \* cluster_evenly: its second argument
    clusters        \* cluster_evenly: the methods_N clusters returned, in the order
                    \* of N, each a list of positions in methods ("none": not called)

shardVars == <<methods, max_elements_per_shard, clusters>>

vars ==
    <<pc, is_listening, audio, retry_count, attempt, transcript, utter, route,
      response, permRet, permText, permState, spoken, sentences, seg, proc, queue,
      stop, lpc, lheard, trace, recStream, shutdownHeard, lset, interrupted,
      methods, max_elements_per_shard, clusters>>

mainVars ==
    <<pc, is_listening, audio, retry_count, attempt, transcript, utter, route,
      response, permRet, permText, permState, spoken, sentences, seg, proc, trace,
      recStream, interrupted>>

turnVars == <<utter, route, response, permRet, permText, permState, trace, recStream>>

lfwVars == <<retry_count, attempt, transcript>>

speechVars == <<sentences, seg, proc>>

listenerVars == <<queue, stop, lpc, lheard, lset>>

sessionVars == <<queue, stop, lpc, lheard, lset, shutdownHeard>>

NetActions == {"post_local", "post_unrestricted", "search_get", "browser"}

\* VoiceAssistant.__init__ with a successful setup_components, at the call of run
Init ==
    /\ pc = "startup"
    /\ is_listening = TRUE
    /\ audio = "ready"
    /\ retry_count = 0
    /\ attempt = 0
    /\ transcript = ""
    /\ utter = ""
    /\ route = "none"
    /\ response = ""
    /\ permRet = "none"
    /\ permText = ""
    /\ permState = "none"
    /\ spoken = ""
    /\ sentences = <<>>
    /\ seg = 0
    /\ proc = "none"
    /\ queue = FALSE
    /\ stop = FALSE
    /\ lpc = "idle"
    /\ lheard = ""
    /\ trace = <<>>
    /\ recStream = "none"
    /\ shutdownHeard = FALSE
    /\ lset = FALSE
    /\ interrupted = FALSE
    /\ methods = <<>>
    /\ max_elements_per_shard = 1
    /\ clusters = "none"

\* The turn's variables as a new turn (or the wait for one) begins
ResetTurn ==
    /\ utter' = ""
    /\ route' = "none"
    /\ response' = ""
    /\ permRet' = "none"
    /\ permText' = ""
    /\ permState' = "none"
    /\ trace' = <<>>
    /\ recStream' = "none"

\* speak(text, allow_interruption=False), and speak of a text shorter than
\* the threshold: one blocking espeak run; returns False
SpeakShort(text) == spoken' = text

\* ------------------------------------------------------------------------
\* run and listen_for_wake_word
\* ------------------------------------------------------------------------

\* run: startup_message
Startup ==
    /\ pc = "startup"
    /\ SpeakShort("Welcome. Ziggy is ready to assist you.")
    /\ pc' = "run_loop"
    /\ UNCHANGED <<shardVars, is_listening, audio, lfwVars, turnVars, speechVars, sessionVars, interrupted>>

\* run: while self.is_listening: wake_result = self.listen_for_wake_word(),
\* whose locals start afresh
RunLoop ==
    /\ pc = "run_loop"
    /\ IF is_listening
       THEN pc' = "lfw_outer" /\ retry_count' = 0 /\ attempt' = 0
       ELSE pc' = "exited" /\ UNCHANGED <<retry_count, attempt>>
    /\ transcript' = ""
    /\ UNCHANGED <<shardVars, is_listening, audio, turnVars, spoken, speechVars, sessionVars, interrupted>>

\* listen_for_wake_word: the outer while loop; creating the recogniser either
\* succeeds or raises into the outer handler, which counts a retry
LfwOuter ==
    /\ pc = "lfw_outer"
    /\ is_listening /\ retry_count < MaxRetries
    /\ \/ /\ pc' = "lfw_open"
          /\ attempt' = 0
          /\ UNCHANGED retry_count
       \/ /\ retry_count' = retry_count + 1
          /\ pc' = IF retry_count + 1 < MaxRetries THEN "lfw_outer" ELSE "run_false"
          /\ UNCHANGED attempt
    /\ UNCHANGED transcript
    /\ UNCHANGED <<shardVars, is_listening, audio, turnVars, spoken, speechVars, sessionVars, interrupted>>

\* listen_for_wake_word: for attempt in range(3): open the capture stream;
\* after the last failed attempt "if not stream: return False"
LfwOpen ==
    /\ pc = "lfw_open"
    /\ attempt < OpenAttempts
    /\ \/ /\ pc' = "lfw_listen"
          /\ retry_count' = 0
          /\ UNCHANGED attempt
       \/ /\ attempt' = attempt + 1
          /\ pc' = IF attempt + 1 < OpenAttempts THEN "lfw_open" ELSE "run_false"
          /\ UNCHANGED retry_count
    /\ UNCHANGED transcript
    /\ UNCHANGED <<shardVars, is_listening, audio, turnVars, spoken, speechVars, sessionVars, interrupted>>

\* listen_for_wake_word: one read of the inner loop.  A final transcript is
\* tested for the wake word first, then for the shutdown phrase; a failed
\* read breaks the loop, and the function closes the stream and returns False.
LfwListen ==
    /\ pc = "lfw_listen"
    /\ is_listening
    /\ \/ \E t \in ListenTranscripts :
             LET heard == Strip(Lower(t))
             IN /\ transcript' = heard
                /\ pc' = IF heard = "" THEN "lfw_listen"
                         ELSE IF Contains(heard, wake_word) THEN "hvc_ack"
                         ELSE IF Contains(heard, shutdown_phrase) THEN "run_bye"
                         ELSE "lfw_listen"
       \/ pc' = "run_false" /\ UNCHANGED transcript
    /\ UNCHANGED <<shardVars, is_listening, audio, retry_count, attempt, turnVars, spoken,
                   speechVars, sessionVars, interrupted>>

\* run: wake_result is False and is_listening still True: pause, loop again
RunFalse ==
    /\ pc = "run_false"
    /\ pc' = IF is_listening THEN "run_loop" ELSE "exited"
    /\ UNCHANGED <<shardVars, is_listening, audio, lfwVars, turnVars, spoken, speechVars, sessionVars,
                   interrupted>>

\* run: wake_result == "shutdown": speak("Okay, bye!"), then shutdown()
RunBye ==
    /\ pc = "run_bye"
    /\ SpeakShort(MsgBye)
    /\ pc' = "shutdown"
    /\ UNCHANGED <<shardVars, is_listening, audio, lfwVars, turnVars, speechVars, sessionVars, interrupted>>

\* shutdown: is_listening = False, audio.terminate(), sys.exit(0)
Shutdown ==
    /\ pc = "shutdown"
    /\ is_listening' = FALSE
    /\ audio' = "terminated"
    /\ pc' = "terminated"
    /\ UNCHANGED <<shardVars, lfwVars, turnVars, spoken, speechVars, sessionVars,
                   interrupted>>


\* ------------------------------------------------------------------------
\* handle_voice_command
\* ------------------------------------------------------------------------

\* A variant of HvcAck in which the new call of handle_voice_command keeps the
\* locals of the call it was made from
HvcAckKeepsTurn ==
    /\ pc = "hvc_ack"
    /\ SpeakShort(MsgAck)
    /\ shutdownHeard' = FALSE
    /\ pc' = "hvc_record"
    /\ transcript' = ""
    /\ UNCHANGED <<shardVars, is_listening, audio, retry_count, attempt, turnVars,
                   speechVars, listenerVars, interrupted>>

\* handle_voice_command: speak("Yes?", allow_interruption=False)
HvcAck ==
    /\ pc = "hvc_ack"
    /\ SpeakShort(MsgAck)
    /\ ResetTurn
    /\ shutdownHeard' = FALSE
    /\ pc' = "hvc_record"
    /\ transcript' = ""
    /\ UNCHANGED <<shardVars, is_listening, audio, retry_count, attempt, speechVars,
                   listenerVars, interrupted>>

\* record_command: what the call returns and the state it leaves its stream
\* in.  All reads succeed: stream.close(), the frames are returned.
\* self.audio.open raises: no stream, None.  A read raises: the handler
\* returns None and the stream is not closed.
RecordOutcomes ==
    {[audio_data |-> "frames", stream |-> "closed"],
     [audio_data |-> "None", stream |-> "none"],
     [audio_data |-> "None", stream |-> "open"]}

\* handle_voice_command: audio_data = self.record_command()
HvcRecord ==
    /\ pc = "hvc_record"
    /\ \E r \in RecordOutcomes :
          /\ recStream' = r.stream
          /\ pc' = IF r.audio_data = "frames" THEN "hvc_stt" ELSE "hvc_noaudio"
    /\ interrupted' = FALSE
    /\ UNCHANGED <<shardVars, is_listening, audio, lfwVars, utter, route, response, permRet,
                   permText, permState, trace, spoken, speechVars, sessionVars>>

\* handle_voice_command: if not audio_data: speak("I didn't hear anything"); return
HvcNoAudio ==
    /\ pc = "hvc_noaudio"
    /\ SpeakShort(MsgNoAudio)
    /\ pc' = "hvc_end"
    /\ UNCHANGED <<shardVars, is_listening, audio, lfwVars, turnVars, speechVars, sessionVars, interrupted>>

HvcSttRoutesEmpty ==
    /\ pc = "hvc_stt"
    /\ \E t \in Utterances :
          /\ utter' = Strip(t)
          /\ pc' = "hvc_route"
    /\ UNCHANGED <<shardVars, recStream, is_listening, audio, lfwVars, route, response, permRet, permText, permState,
                   trace, spoken, speechVars, sessionVars, interrupted>>

\* handle_voice_command: command_text = self.speech_to_text(audio_data);
\* if not command_text: the clarification instead of routing
HvcStt ==
    /\ pc = "hvc_stt"
    /\ \E t \in Utterances :
          /\ utter' = Strip(t)
          /\ pc' = IF Strip(t) = "" THEN "hvc_notunderstood" ELSE "hvc_route"
    /\ UNCHANGED <<shardVars, recStream, is_listening, audio, lfwVars, route, response, permRet, permText, permState,
                   trace, spoken, speechVars, sessionVars, interrupted>>

\* handle_voice_command: if not command_text: speak("I couldn't understand
\* that"); return
HvcNotUnderstood ==
    /\ pc = "hvc_notunderstood"
    /\ SpeakShort(MsgNotUnderstood)
    /\ pc' = "hvc_end"
    /\ UNCHANGED <<shardVars, is_listening, audio, lfwVars, turnVars, speechVars, sessionVars, interrupted>>

RouteQueryDecidesOnly ==
    /\ pc = "hvc_route"
    /\ LET category == RouteCategory(utter)
       IN /\ route' = category
          /\ \E clock \in Clocks, day \in Days :
                response' = CASE category = "shutdown" -> MsgBye
                              [] category = "time" -> get_time(clock)
                              [] category = "date" -> get_date(day)
                              [] category = "conversion" -> handle_conversion(utter)
                              [] OTHER -> ""
          /\ pc' = CASE category = "shutdown" -> "hvc_bye"
                     [] OTHER -> "hvc_speak"
          /\ permRet' = "none"
    /\ UNCHANGED <<shardVars, recStream, is_listening, audio, lfwVars, utter, permText, permState, trace, spoken,
                   speechVars, sessionVars, interrupted>>

\* route_query up to the first blocking call of the handler it chooses: the
\* shutdown, time, date and conversion categories return at once; search
\* enters web_search (which first requests permission); everything else
\* enters query_ai_local_only
RouteQuery ==
    /\ pc = "hvc_route"
    /\ LET category == RouteCategory(utter)
       IN /\ route' = category
          /\ \E clock \in Clocks, day \in Days :
                response' = CASE category = "shutdown" -> MsgBye
                              [] category = "time" -> get_time(clock)
                              [] category = "date" -> get_date(day)
                              [] category = "conversion" -> handle_conversion(utter)
                              [] OTHER -> ""
          /\ pc' = CASE category = "shutdown" -> "hvc_bye"
                     [] category \in {"time", "date", "conversion"} -> "hvc_speak"
                     [] category = "search" -> "perm_ask"
                     [] OTHER -> "ai_post"
          /\ permRet' = CASE category = "search" -> "web"
                          [] OTHER -> "none"
    /\ UNCHANGED <<shardVars, recStream, is_listening, audio, lfwVars, utter, permText, permState, trace, spoken,
                   speechVars, sessionVars, interrupted>>

\* handle_voice_command: route_type == "shutdown": speak(response), shutdown()
HvcBye ==
    /\ pc = "hvc_bye"
    /\ SpeakShort(response)
    /\ pc' = "shutdown"
    /\ UNCHANGED <<shardVars, is_listening, audio, lfwVars, turnVars, speechVars, sessionVars, interrupted>>

\* handle_voice_command: the finally clause and the return to run's loop
HvcEnd ==
    /\ pc = "hvc_end"
    /\ ResetTurn
    /\ shutdownHeard' = FALSE
    /\ pc' = "run_loop"
    /\ UNCHANGED <<shardVars, is_listening, audio, lfwVars, spoken, speechVars, listenerVars, interrupted>>

\* ------------------------------------------------------------------------
\* request_online_permission
\* ------------------------------------------------------------------------

\* request_online_permission: speak(permission_text, allow_interruption=False)
PermAsk ==
    /\ pc = "perm_ask"
    /\ SpeakShort(MsgPermission)
    /\ pc' = "perm_record"
    /\ UNCHANGED <<shardVars, is_listening, audio, lfwVars, turnVars, speechVars, sessionVars, interrupted>>

\* request_online_permission: response_audio = self.record_command(duration=3);
\* no audio: "No response - defaulting to no online access"
PermRecord ==
    /\ pc = "perm_record"
    /\ \E r \in RecordOutcomes :
          /\ recStream' = r.stream
          /\ IF r.audio_data = "frames"
             THEN pc' = "perm_stt" /\ UNCHANGED permState
             ELSE pc' = "perm_return" /\ permState' = "NoResponse"
    /\ UNCHANGED <<shardVars, is_listening, audio, lfwVars, utter, route, response, permRet, permText,
                   trace, spoken, speechVars, sessionVars, interrupted>>

\* request_online_permission: transcribe the answer and classify it
PermStt ==
    /\ pc = "perm_stt"
    /\ \E t \in PermissionTranscripts :
          /\ permText' = t
          /\ permState' = PermissionState(t)
    /\ pc' = "perm_return"
    /\ UNCHANGED <<shardVars, recStream, is_listening, audio, lfwVars, utter, route, response, permRet, trace,
                   spoken, speechVars, sessionVars, interrupted>>

\* request_online_permission: return True / return False
PermReturn ==
    /\ pc = "perm_return"
    /\ trace' = Append(trace, IF PermissionReturn(permState) THEN "granted" ELSE "refused")
    /\ pc' = IF permRet = "web" THEN "ws_permitted" ELSE "ai_permitted"
    /\ UNCHANGED <<shardVars, recStream, is_listening, audio, lfwVars, utter, route, response, permRet, permText,
                   permState, spoken, speechVars, sessionVars, interrupted>>

\* The value request_online_permission returned to its caller
Permitted == trace /= <<>> /\ trace[Len(trace)] = "granted"


\* ------------------------------------------------------------------------
\* web_search, fetch_and_read_results, open_browser_search
\* ------------------------------------------------------------------------

WebSearchIgnoresRefusal ==
    /\ pc = "ws_permitted"
    /\ pc' = "ws_options"
    /\ permText' = ""
    /\ UNCHANGED <<shardVars, recStream, is_listening, audio, lfwVars, utter, route, response, permRet, permState,
                   trace, spoken, speechVars, sessionVars, interrupted>>

\* web_search: if not self.request_online_permission("web search"): return
\* "Okay, staying local. ..."
WebSearchAfterPermission ==
    /\ pc = "ws_permitted"
    /\ IF Permitted
       THEN pc' = "ws_options" /\ UNCHANGED response
       ELSE pc' = "hvc_speak" /\ response' = MsgStayingLocal
    /\ permText' = ""
    /\ UNCHANGED <<shardVars, recStream, is_listening, audio, lfwVars, utter, route, permRet, permState, trace,
                   spoken, speechVars, sessionVars, interrupted>>

\* web_search: speak(options_text, allow_interruption=False)
WsOptions ==
    /\ pc = "ws_options"
    /\ SpeakShort(MsgOptions)
    /\ pc' = "ws_choice"
    /\ UNCHANGED <<shardVars, is_listening, audio, lfwVars, turnVars, speechVars, sessionVars, interrupted>>

\* web_search: record the answer (4 seconds), transcribe and classify it; no
\* audio and an unclear answer both default to reading the results
WsChoice ==
    /\ pc = "ws_choice"
    /\ \E r \in RecordOutcomes :
          /\ recStream' = r.stream
          /\ IF r.audio_data = "frames"
             THEN \E t \in ChoiceTranscripts :
                     pc' = IF SearchChoice(t) = "browse" THEN "browser" ELSE "fetch_start"
             ELSE pc' = "fetch_start"
    /\ UNCHANGED <<shardVars, is_listening, audio, lfwVars, utter, route, response, permRet,
                   permText, permState, trace, spoken, speechVars, sessionVars, interrupted>>

\* fetch_and_read_results: speak("Let me search for that", allow_interruption=False)
FetchStart ==
    /\ pc = "fetch_start"
    /\ SpeakShort(MsgSearching)
    /\ pc' = "fetch_get"
    /\ UNCHANGED <<shardVars, is_listening, audio, lfwVars, turnVars, speechVars, sessionVars, interrupted>>

\* fetch_and_read_results: requests.get(search_url, timeout=10) and what
\* follows: a 200 reply with an answer is returned for speech; a 200 reply
\* without one, another status, and an exception all go on to the browser
FetchGet ==
    /\ pc = "fetch_get"
    /\ trace' = Append(trace, "search_get")
    /\ \/ \E a \in SearchAnswers :
             LET answer == Strip(a)
             IN IF answer /= ""
                THEN /\ response' = CleanAnswer(answer)
                     /\ pc' = "hvc_speak"
                     /\ UNCHANGED spoken
                ELSE /\ SpeakShort(MsgNoDirectAnswer)
                     /\ pc' = "browser"
                     /\ UNCHANGED response
       \/ /\ pc' = "browser"
          /\ UNCHANGED <<response, spoken>>
       \/ /\ SpeakShort(MsgSearchTrouble)
          /\ pc' = "browser"
          /\ UNCHANGED response
    /\ UNCHANGED <<shardVars, recStream, is_listening, audio, lfwVars, utter, route, permRet, permText, permState,
                   speechVars, sessionVars, interrupted>>

\* open_browser_search: subprocess.Popen(['firefox', ...]); the launch either
\* succeeds or raises
OpenBrowserSearch ==
    /\ pc = "browser"
    /\ trace' = Append(trace, "browser")
    /\ \/ response' = MsgOpenedBrowser(SearchQuery(utter))
       \/ response' = MsgBrowserFailed
    /\ pc' = "hvc_speak"
    /\ UNCHANGED <<shardVars, recStream, is_listening, audio, lfwVars, utter, route, permRet, permText, permState,
                   spoken, speechVars, sessionVars, interrupted>>

\* ------------------------------------------------------------------------
\* query_ai_local_only, query_ai_unrestricted
\* ------------------------------------------------------------------------

QueryAiLocalOnlyRaises ==
    /\ pc = "ai_post"
    /\ trace' = Append(trace, "post_local")
    /\ \/ \E r \in AiReplies :
             LET ai_response == Strip(r)
             IN IF Contains(ai_response, MsgNeedOnline)
                THEN pc' = "perm_ask" /\ permRet' = "ai" /\ UNCHANGED response
                ELSE pc' = "hvc_speak" /\ response' = ai_response /\ UNCHANGED permRet
       \/ pc' = "hvc_speak" /\ response' = MsgCouldNotProcess /\ UNCHANGED permRet
       \/ pc' = "exited" /\ UNCHANGED <<response, permRet>>
    /\ UNCHANGED <<shardVars, recStream, is_listening, audio, lfwVars, utter, route, permText, permState, spoken,
                   speechVars, sessionVars, interrupted>>

\* query_ai_local_only: requests.post(.../v1/chat/completions) with the
\* local-only system message.  A 200 reply whose content asks for online
\* resources leads to the permission request; any other 200 reply is the
\* response; another status and an exception (timeout, connection error,
\* malformed reply) give the two apologies.
QueryAiLocalOnly ==
    /\ pc = "ai_post"
    /\ trace' = Append(trace, "post_local")
    /\ \/ \E r \in AiReplies :
             LET ai_response == Strip(r)
             IN IF Contains(ai_response, MsgNeedOnline)
                THEN pc' = "perm_ask" /\ permRet' = "ai" /\ UNCHANGED response
                ELSE pc' = "hvc_speak" /\ response' = ai_response /\ UNCHANGED permRet
       \/ pc' = "hvc_speak" /\ response' = MsgCouldNotProcess /\ UNCHANGED permRet
       \/ pc' = "hvc_speak" /\ response' = MsgQueryError /\ UNCHANGED permRet
    /\ UNCHANGED <<shardVars, recStream, is_listening, audio, lfwVars, utter, route, permText, permState, spoken,
                   speechVars, sessionVars, interrupted>>

AiIgnoresRefusal ==
    /\ pc = "ai_permitted"
    /\ pc' = "ai_post2"
    /\ permText' = ""
    /\ UNCHANGED <<shardVars, recStream, is_listening, audio, lfwVars, utter, route, response, permRet, permState,
                   trace, spoken, speechVars, sessionVars, interrupted>>

\* query_ai_local_only: if not self.request_online_permission(...): return
\* "Okay, I'll stick to what I know locally. ..."; otherwise
\* return self.query_ai_unrestricted(text)
AiAfterPermission ==
    /\ pc = "ai_permitted"
    /\ IF Permitted
       THEN pc' = "ai_post2" /\ UNCHANGED response
       ELSE pc' = "hvc_speak" /\ response' = MsgStickLocal
    /\ permText' = ""
    /\ UNCHANGED <<shardVars, recStream, is_listening, audio, lfwVars, utter, route, permRet, permState, trace,
                   spoken, speechVars, sessionVars, interrupted>>

\* query_ai_unrestricted: requests.post(.../v1/chat/completions) without the
\* local-only message; a 200 reply is returned as it is
QueryAiUnrestricted ==
    /\ pc = "ai_post2"
    /\ trace' = Append(trace, "post_unrestricted")
    /\ \/ \E r \in AiReplies : response' = Strip(r)
       \/ response' = MsgCouldNotProcess
       \/ response' = MsgQueryError
    /\ pc' = "hvc_speak"
    /\ UNCHANGED <<shardVars, recStream, is_listening, audio, lfwVars, utter, route, permRet, permText, permState,
                   spoken, speechVars, sessionVars, interrupted>>


\* ------------------------------------------------------------------------
\* speak and speak_with_interruption (main thread)
\* ------------------------------------------------------------------------

\* handle_voice_command: was_interrupted = self.speak(response,
\* allow_interruption=True).  A text shorter than the threshold is spoken in
\* one piece and speak returns False.  Otherwise speak_with_interruption
\* splits the text, makes a new queue and a new event and starts a new
\* listener thread.  (A listener of an earlier call that is still running
\* holds the queue and the event of that call, which nothing reads any more;
\* the model follows the thread of the current call only.)
HvcSpeak ==
    /\ pc = "hvc_speak"
    /\ IF Len(response) < InterruptThreshold
       THEN /\ SpeakShort(response)
            /\ pc' = "hvc_end"
            /\ UNCHANGED <<speechVars, sessionVars>>
       ELSE /\ sentences' = split_into_sentences(response)
            /\ seg' = 1
            /\ proc' = "none"
            /\ queue' = FALSE
            /\ stop' = FALSE
            /\ lpc' = "l_setup"
            /\ lheard' = ""
            /\ lset' = FALSE
            /\ shutdownHeard' = FALSE
            /\ pc' = "swi_check"
            /\ UNCHANGED spoken
    /\ UNCHANGED <<shardVars, is_listening, audio, lfwVars, turnVars, interrupted>>

\* speak_with_interruption: the head of the for loop: the loop ends after
\* the last sentence, and "if stop_speaking.is_set(): break"
SwiCheck ==
    /\ pc = "swi_check"
    /\ pc' = IF seg > Len(sentences) \/ stop THEN "swi_stop" ELSE "swi_popen"
    /\ UNCHANGED <<shardVars, is_listening, audio, lfwVars, turnVars, spoken, speechVars, sessionVars,
                   interrupted>>

\* speak_with_interruption: process = subprocess.Popen(['espeak', ...,
\* sentence.strip()])
SwiPopen ==
    /\ pc = "swi_popen"
    /\ proc' = "running"
    /\ spoken' = Strip(sentences[seg])
    /\ pc' = "swi_poll"
    /\ UNCHANGED <<shardVars, is_listening, audio, lfwVars, turnVars, sentences, seg, sessionVars,
                   interrupted>>

\* The espeak process reaches the end of its sentence.
ProcFinish ==
    /\ proc = "running"
    /\ proc' = "finished"
    /\ UNCHANGED <<shardVars, pc, is_listening, audio, lfwVars, turnVars, spoken, sentences, seg,
                   sessionVars, interrupted>>

SwiPollNoTerminate ==
    /\ pc = "swi_poll"
    /\ \/ proc /= "running"
       \/ proc = "running" /\ stop
    /\ seg' = seg + 1
    /\ pc' = "swi_check"
    /\ UNCHANGED <<shardVars, is_listening, audio, lfwVars, turnVars, spoken, sentences, proc,
                   sessionVars, interrupted>>

\* speak_with_interruption: while process.poll() is None: if
\* stop_speaking.is_set(): process.terminate(); break.  The loop sleeps while
\* the process runs and the event is not set; either way out leads to the
\* next sentence of the for loop.
SwiPoll ==
    /\ pc = "swi_poll"
    /\ \/ /\ proc /= "running"
          /\ UNCHANGED proc
       \/ /\ proc = "running" /\ stop
          /\ proc' = "terminated"
    /\ seg' = seg + 1
    /\ pc' = "swi_check"
    /\ UNCHANGED <<shardVars, is_listening, audio, lfwVars, turnVars, spoken, sentences, sessionVars,
                   interrupted>>

\* speak_with_interruption: stop_speaking.set() after the loop
SwiStop ==
    /\ pc = "swi_stop"
    /\ stop' = TRUE
    /\ pc' = "swi_get"
    /\ UNCHANGED <<shardVars, is_listening, audio, lfwVars, turnVars, spoken, speechVars, queue, lpc,
                   lheard, lset, shutdownHeard, interrupted>>

SwiGetNoRecapture ==
    /\ pc = "swi_get"
    /\ queue' = FALSE
    /\ interrupted' = queue
    /\ pc' = "hvc_end"
    /\ UNCHANGED <<shardVars, is_listening, audio, lfwVars, turnVars, spoken, speechVars, stop, lpc,
                   lheard, lset, shutdownHeard>>

\* A variant of SwiGet that answers with the stop flag instead of the queue
SwiGetReturnsStopFlag ==
    /\ pc = "swi_get"
    /\ queue' = FALSE
    /\ interrupted' = stop
    /\ pc' = IF stop THEN "hvc_ack" ELSE "hvc_end"
    /\ UNCHANGED <<shardVars, is_listening, audio, lfwVars, turnVars, spoken, speechVars, stop, lpc,
                   lheard, lset, shutdownHeard>>

\* speak_with_interruption: interruption_queue.get_nowait(): an item: return
\* True, and handle_voice_command calls itself for the new command; Empty:
\* return False, and handle_voice_command finishes the turn
SwiGet ==
    /\ pc = "swi_get"
    /\ queue' = FALSE
    /\ interrupted' = queue
    /\ pc' = IF queue THEN "hvc_ack" ELSE "hvc_end"
    /\ UNCHANGED <<shardVars, is_listening, audio, lfwVars, turnVars, spoken, speechVars, stop, lpc,
                   lheard, lset, shutdownHeard>>

\* ------------------------------------------------------------------------
\* listen_for_interruption (listener thread)
\* ------------------------------------------------------------------------

\* The Python process is running: the listener is a daemon thread, which runs
\* no further once the main thread has left through sys.exit(0) or the end of
\* run.
ProcessAlive == pc \notin {"terminated", "exited"}

\* listen_for_interruption: create the recogniser and open the capture
\* stream; an exception ends the thread ("Interruption listener setup error")
ListenerSetup ==
    /\ ProcessAlive
    /\ lpc = "l_setup"
    /\ \/ lpc' = "l_loop"
       \/ lpc' = "l_done"
    /\ UNCHANGED <<shardVars, mainVars, queue, stop, lheard, lset, shutdownHeard>>

\* listen_for_interruption: while not stop_event.is_set()
ListenerLoop ==
    /\ ProcessAlive
    /\ lpc = "l_loop"
    /\ lpc' = IF stop THEN "l_close" ELSE "l_read"
    /\ UNCHANGED <<shardVars, mainVars, queue, stop, lheard, lset, shutdownHeard>>

\* listen_for_interruption: stream.read and recognizer.AcceptWaveform: a
\* final transcript with text goes on to the wake-word test; a result
\* without text, and a read that raises, go back to the head of the loop
ListenerRead ==
    /\ ProcessAlive
    /\ lpc = "l_read"
    /\ \/ \E t \in ListenTranscripts :
             LET heard == Strip(Lower(t))
             IN /\ lheard' = heard
                /\ lpc' = IF heard = "" THEN "l_loop" ELSE "l_match"
       \/ /\ lpc' = "l_loop"
          /\ UNCHANGED lheard
    /\ UNCHANGED <<shardVars, mainVars, queue, stop, lset, shutdownHeard>>

\* The main thread is in the for loop with a sentence still to speak
Playing == pc \in {"swi_check", "swi_popen", "swi_poll"} /\ seg <= Len(sentences)

ListenerMatchAlsoShutdown ==
    /\ ProcessAlive
    /\ lpc = "l_match"
    /\ lpc' = IF Contains(lheard, wake_word) \/ Contains(lheard, shutdown_phrase)
              THEN "l_put" ELSE "l_loop"
    /\ lheard' = ""
    /\ shutdownHeard' =
          (shutdownHeard \/ (Contains(lheard, shutdown_phrase)
                             /\ ~Contains(lheard, wake_word) /\ ~stop /\ Playing))
    /\ UNCHANGED <<shardVars, mainVars, queue, stop, lset>>

\* listen_for_interruption: if self.wake_word in transcript; nothing else is
\* looked for in the transcript
ListenerMatch ==
    /\ ProcessAlive
    /\ lpc = "l_match"
    /\ lpc' = IF Contains(lheard, wake_word) THEN "l_put" ELSE "l_loop"
    /\ lheard' = ""
    /\ shutdownHeard' =
          (shutdownHeard \/ (Contains(lheard, shutdown_phrase)
                             /\ ~Contains(lheard, wake_word) /\ ~stop /\ Playing))
    /\ UNCHANGED <<shardVars, mainVars, queue, stop, lset>>

ListenerSetsWithoutPut ==
    /\ ProcessAlive
    /\ lpc = "l_put"
    /\ lpc' = "l_set"
    /\ UNCHANGED <<shardVars, mainVars, queue, stop, lheard, lset, shutdownHeard>>

\* listen_for_interruption: interruption_queue.put(True)
ListenerPut ==
    /\ ProcessAlive
    /\ lpc = "l_put"
    /\ queue' = TRUE
    /\ lpc' = "l_set"
    /\ UNCHANGED <<shardVars, mainVars, stop, lheard, lset, shutdownHeard>>

\* listen_for_interruption: stop_event.set(); break
ListenerSet ==
    /\ ProcessAlive
    /\ lpc = "l_set"
    /\ stop' = TRUE
    /\ lset' = TRUE
    /\ lpc' = "l_close"
    /\ UNCHANGED <<shardVars, mainVars, queue, lheard, shutdownHeard>>

\* listen_for_interruption: stream.close()
ListenerClose ==
    /\ ProcessAlive
    /\ lpc = "l_close"
    /\ lpc' = "l_done"
    /\ UNCHANGED <<shardVars, mainVars, queue, stop, lheard, lset, shutdownHeard>>

\* ------------------------------------------------------------------------
\* Capture streams
\* ------------------------------------------------------------------------

\* listen_for_wake_word holds its capture stream from the successful
\* self.audio.open(...) until the stream.close() before each return
MainStreamOpen == pc = "lfw_listen"

\* listen_for_interruption holds its capture stream from self.audio.open(...)
\* until stream.close() after the loop (audio.terminate() closes it as well)
ListenerStreamOpen ==
    /\ lpc \in {"l_loop", "l_read", "l_match", "l_put", "l_set", "l_close"}
    /\ audio = "ready"

\* ------------------------------------------------------------------------
\* Termination signals
\* ------------------------------------------------------------------------

\* run: signal.signal(SIGINT / SIGTERM, lambda s, f: self.shutdown()).  The
\* handler runs in the main thread wherever that thread is: is_listening =
\* False, audio.terminate(), sys.exit(0); SystemExit passes every "except
\* Exception" on its way out.  Nothing in shutdown touches the espeak process
\* that speak_with_interruption started with Popen: it is a process of its
\* own and plays its sentence to the end.
Signal ==
    /\ pc \notin {"startup", "terminated", "exited"}
    /\ is_listening' = FALSE
    /\ audio' = "terminated"
    /\ pc' = "terminated"
    /\ UNCHANGED <<shardVars, lfwVars, turnVars, spoken, speechVars, sessionVars,
                   interrupted>>

\* ------------------------------------------------------------------------
\* Exceptions
\* ------------------------------------------------------------------------

MsgTrouble == "Sorry, I had trouble processing that"

\* handle_voice_command: route_query raises: except Exception: print,
\* speak("Sorry, I had trouble processing that", allow_interruption=False);
\* the finally clause follows
HvcException ==
    /\ pc = "hvc_route"
    /\ SpeakShort(MsgTrouble)
    /\ pc' = "hvc_end"
    /\ UNCHANGED <<shardVars, is_listening, audio, lfwVars, turnVars, speechVars, sessionVars,
                   interrupted>>

\* run: an exception leaves listen_for_wake_word (raised in its outer
\* handler) or handle_voice_command (raised in its finally clause) and
\* reaches "except Exception as e: print(Main loop error); self.shutdown()"
RunException ==
    /\ pc \in {"lfw_outer", "hvc_end"}
    /\ ResetTurn
    /\ pc' = "shutdown"
    /\ UNCHANGED <<shardVars, is_listening, audio, lfwVars, spoken, speechVars, sessionVars,
                   interrupted>>

\* speak_with_interruption: subprocess.Popen raises after the listener
\* thread was started: except Exception: print, return False.  The handler
\* does not set stop_speaking; speak returns False and handle_voice_command
\* finishes the turn.
SwiException ==
    /\ pc = "swi_popen"
    /\ interrupted' = FALSE
    /\ pc' = "hvc_end"
    /\ UNCHANGED <<shardVars, is_listening, audio, lfwVars, turnVars, spoken, speechVars,
                   sessionVars>>

\* The steps of the listener thread
ListenerNext ==
    \/ ListenerSetup
    \/ ListenerLoop
    \/ ListenerRead
    \/ ListenerMatch
    \/ ListenerPut
    \/ ListenerSet
    \/ ListenerClose

\* ------------------------------------------------------------------------
\* cluster_evenly (file_sharder)
\* ------------------------------------------------------------------------

\* The characters of the method names in code point order
CodePointOrder == "0123456789ABCDEFGHIJKLMNOPQRSTUVWXYZ_abcdefghijklmnopqrstuvwxyz"

CodeRank(c) == CHOOSE k \in 1..Len(CodePointOrder) : Ch(CodePointOrder, k) = c

\* Python: a < b for strings, as sorted() compares the prefixes
StrLess(a, b) ==
    \E i \in 1..(Len(a) + 1) :
        /\ i - 1 <= Len(b)
        /\ SubSeq(a, 1, i - 1) = SubSeq(b, 1, i - 1)
        /\ \/ i = Len(a) + 1 /\ i <= Len(b)
           \/ /\ i <= Len(a) /\ i <= Len(b)
              /\ CodeRank(Ch(a, i)) < CodeRank(Ch(b, i))

IsLowerLetter(c) == \E k \in 1..Len(LowerCase) : Ch(LowerCase, k) = c

IsUpperLetter(c) == \E k \in 1..Len(UpperCase) : Ch(UpperCase, k) = c

\* Length of the longest run of [a-z] that starts at position i of s
LowerRun(s, i) ==
    LET stops == {k \in i..Len(s) : ~IsLowerLetter(Ch(s, k))}
    IN IF stops = {} THEN Len(s) - i + 1 ELSE SetMin(stops) - i

\* The grouping key of a method name: the match of ^([a-z]+_), else the match
\* of ^([a-z]+[A-Z][a-z]*), else the first three characters, else 'other'
MethodPrefix(method_name) ==
    LET k == LowerRun(method_name, 1)
    IN IF k >= 1 /\ k < Len(method_name) /\ Ch(method_name, k + 1) = "_"
       THEN SubSeq(method_name, 1, k + 1)
       ELSE IF k >= 1 /\ k < Len(method_name) /\ IsUpperLetter(Ch(method_name, k + 1))
       THEN SubSeq(method_name, 1, k + 1 + LowerRun(method_name, k + 2))
       ELSE IF Len(method_name) >= 3 THEN SubSeq(method_name, 1, 3)
       ELSE "other"

\* method_groups[prefix]: the methods with this prefix (by their position in
\* elements['methods']), in the order of the list
MethodGroup(names, prefix) ==
    SelectSeq([i \in 1..Len(names) |-> i], LAMBDA i : MethodPrefix(names[i]) = prefix)

\* sorted(method_groups.keys())
SortedPrefixes(names) ==
    LET keys == {MethodPrefix(names[i]) : i \in 1..Len(names)}
        n == Cardinality(keys)
    IN CHOOSE order \in [1..n -> keys] :
           \A i \in 1..(n - 1) : StrLess(order[i], order[i + 1])

\* methods_in_group[i:i + max] for i in range(0, len(methods_in_group), max)
RECURSIVE Chunks(_, _)
Chunks(methods_in_group, max) ==
    IF Len(methods_in_group) <= max THEN <<methods_in_group>>
    ELSE <<SubSeq(methods_in_group, 1, max)>>
         \o Chunks(SubSeq(methods_in_group, max + 1, Len(methods_in_group)), max)

\* The loop over the sorted prefixes and the statement after it.  merged is
\* merged_groups with methods_N at position N (group_index is Len(merged) +
\* 1).  current_group is a list object: the entries of merged that hold this
\* same object (shared) grow with it when current_group.extend is called.
RECURSIVE MergeGroups(_, _, _, _)
MergeGroups(groups, k, max, st) ==
    IF k > Len(groups)
    THEN IF st.current_group /= <<>> THEN Append(st.merged, st.current_group)
         ELSE st.merged
    ELSE LET methods_in_group == groups[k]
         IN IF st.current_size + Len(methods_in_group) <= max
            THEN LET extended == st.current_group \o methods_in_group
                 IN MergeGroups(groups, k + 1, max,
                        [merged |-> [c \in 1..Len(st.merged) |->
                                        IF c \in st.shared THEN extended
                                        ELSE st.merged[c]],
                         current_group |-> extended,
                         current_size |-> st.current_size + Len(methods_in_group),
                         shared |-> st.shared])
            ELSE LET stored == IF st.current_group /= <<>>
                               THEN Append(st.merged, st.current_group)
                               ELSE st.merged
                     shared == IF st.current_group /= <<>>
                               THEN st.shared \cup {Len(stored)}
                               ELSE st.shared
                 IN IF Len(methods_in_group) > max
                    THEN MergeGroups(groups, k + 1, max,
                             [merged |-> stored \o Chunks(methods_in_group, max),
                              current_group |-> st.current_group,
                              current_size |-> st.current_size,
                              shared |-> shared])
                    ELSE MergeGroups(groups, k + 1, max,
                             [merged |-> stored,
                              current_group |-> methods_in_group,
                              current_size |-> Len(methods_in_group),
                              shared |-> {}])

\* cluster_evenly for one class with more methods than max: the clusters
\* methods_1, methods_2, ... it returns, each a list of methods
cluster_evenly(names, max) ==
    LET order == SortedPrefixes(names)
        groups == [k \in 1..Len(order) |-> MethodGroup(names, order[k])]
    IN MergeGroups(groups, 1, max,
           [merged |-> <<>>, current_group |-> <<>>, current_size |-> 0,
            shared |-> {}])

\* ------------------------------------------------------------------------
\* Specification
\* ------------------------------------------------------------------------

Next ==
    \/ Startup
    \/ RunLoop
    \/ LfwOuter
    \/ LfwOpen
    \/ LfwListen
    \/ RunFalse
    \/ RunBye
    \/ Shutdown
    \/ HvcAck
    \/ HvcRecord
    \/ HvcNoAudio
    \/ HvcStt
    \/ HvcNotUnderstood
    \/ RouteQuery
    \/ HvcBye
    \/ HvcEnd
    \/ PermAsk
    \/ PermRecord
    \/ PermStt
    \/ PermReturn
    \/ WebSearchAfterPermission
    \/ WsOptions
    \/ WsChoice
    \/ FetchStart
    \/ FetchGet
    \/ OpenBrowserSearch
    \/ QueryAiLocalOnly
    \/ AiAfterPermission
    \/ QueryAiUnrestricted
    \/ HvcSpeak
    \/ SwiCheck
    \/ SwiPopen
    \/ ProcFinish
    \/ SwiPoll
    \/ SwiStop
    \/ SwiGet
    \/ ListenerSetup
    \/ ListenerLoop
    \/ ListenerRead
    \/ ListenerMatch
    \/ ListenerPut
    \/ ListenerSet
    \/ ListenerClose

Spec == Init /\ [][Next]_vars

\* The program with termination signals delivered at any moment of the run
SignalNext == Next \/ Signal

SignalSpec == Init /\ [][SignalNext]_vars

\* The program with exceptions raised in route_query and in the main loop
FaultNext == Next \/ HvcException \/ RunException

FaultSpec == Init /\ [][FaultNext]_vars

\* speak(response, allow_interruption=True) on its own, from the call in
\* handle_voice_command to its return, with the listener thread it starts and
\* with subprocess.Popen raising.  The listener thread keeps running after
\* the return: each of its blocking reads returns or raises, and the thread
\* is scheduled again.
SpeakInit ==
    /\ pc = "hvc_speak"
    /\ utter = "explain quantum computing"
    /\ route = "ai"
    /\ response \in AiReplies
    /\ spoken = MsgAck
    /\ is_listening = TRUE
    /\ audio = "ready"
    /\ retry_count = 0
    /\ attempt = 0
    /\ transcript = ""
    /\ permRet = "none"
    /\ permText = ""
    /\ permState = "none"
    /\ sentences = <<>>
    /\ seg = 0
    /\ proc = "none"
    /\ queue = FALSE
    /\ stop = FALSE
    /\ lpc = "idle"
    /\ lheard = ""
    /\ trace = <<"post_local">>
    /\ recStream = "closed"
    /\ shutdownHeard = FALSE
    /\ lset = FALSE
    /\ interrupted = FALSE
    /\ methods = <<>>
    /\ max_elements_per_shard = 1
    /\ clusters = "none"

SpeakNext ==
    \/ HvcSpeak
    \/ SwiCheck
    \/ SwiPopen
    \/ ProcFinish
    \/ SwiPoll
    \/ SwiStop
    \/ SwiGet
    \/ SwiException
    \/ ListenerNext

SpeakFairSpec == SpeakInit /\ [][SpeakNext]_vars /\ WF_vars(ListenerNext)

\* split_into_sentences on its own: the texts are made of up to MaxPieces
\* sentences, short and long ones, with each of the three terminators
SplitPieces ==
    {"Yes. ", "No! ", "I really do think that is right. ",
     "It is not what I wanted to say? ", "Bye now"}

RECURSIVE Concat(_)
Concat(pieces) ==
    IF pieces = <<>> THEN "" ELSE Head(pieces) \o Concat(Tail(pieces))

SplitTexts ==
    {Concat(pieces) : pieces \in UNION {[1..n -> SplitPieces] : n \in 0..MaxPieces}}

SplitInit ==
    /\ pc = "split_call"
    /\ response \in SplitTexts
    /\ sentences = <<>>
    /\ utter = ""
    /\ route = "none"
    /\ spoken = ""
    /\ is_listening = TRUE
    /\ audio = "ready"
    /\ retry_count = 0
    /\ attempt = 0
    /\ transcript = ""
    /\ permRet = "none"
    /\ permText = ""
    /\ permState = "none"
    /\ seg = 0
    /\ proc = "none"
    /\ queue = FALSE
    /\ stop = FALSE
    /\ lpc = "idle"
    /\ lheard = ""
    /\ trace = <<>>
    /\ recStream = "none"
    /\ shutdownHeard = FALSE
    /\ lset = FALSE
    /\ interrupted = FALSE
    /\ methods = <<>>
    /\ max_elements_per_shard = 1
    /\ clusters = "none"

\* sentences = self.split_into_sentences(text)
SplitCall ==
    /\ pc = "split_call"
    /\ sentences' = split_into_sentences(response)
    /\ pc' = "split_done"
    /\ UNCHANGED <<shardVars, is_listening, audio, lfwVars, turnVars, spoken, seg, proc,
                   sessionVars, interrupted>>

SplitNext == SplitCall

SplitSpec == SplitInit /\ [][SplitNext]_vars

\* cluster_evenly on its own: one class whose methods, more than
\* max_elements_per_shard of them, have the names of MethodNames
MethodNames == {"get_x", "get_y", "set_x", "getName", "ab", "run"}

ClusterInit ==
    /\ pc = "cluster_call"
    /\ max_elements_per_shard \in 1..MaxShard
    /\ methods \in UNION {[1..n -> MethodNames] : n \in 2..MaxMethods}
    /\ Len(methods) > max_elements_per_shard
    /\ clusters = "none"
    /\ response = ""
    /\ sentences = <<>>
    /\ utter = ""
    /\ route = "none"
    /\ spoken = ""
    /\ is_listening = TRUE
    /\ audio = "ready"
    /\ retry_count = 0
    /\ attempt = 0
    /\ transcript = ""
    /\ permRet = "none"
    /\ permText = ""
    /\ permState = "none"
    /\ seg = 0
    /\ proc = "none"
    /\ queue = FALSE
    /\ stop = FALSE
    /\ lpc = "idle"
    /\ lheard = ""
    /\ trace = <<>>
    /\ recStream = "none"
    /\ shutdownHeard = FALSE
    /\ lset = FALSE
    /\ interrupted = FALSE

\* clusters = cluster_evenly(elements, max_elements_per_shard)
ClusterCall ==
    /\ pc = "cluster_call"
    /\ clusters' = cluster_evenly(methods, max_elements_per_shard)
    /\ pc' = "cluster_done"
    /\ UNCHANGED <<methods, max_elements_per_shard, is_listening, audio, lfwVars, turnVars,
                   spoken, speechVars, sessionVars, interrupted>>

ClusterNext == ClusterCall

ClusterSpec == ClusterInit /\ [][ClusterNext]_vars

\* route_query on its own: handle_voice_command has acknowledged the wake
\* word and transcribed a command, and calls route_query with it
RouterInit ==
    /\ pc = "hvc_route"
    /\ utter \in {Strip(t) : t \in RouterUtterances}
    /\ is_listening = TRUE
    /\ audio = "ready"
    /\ retry_count = 0
    /\ attempt = 0
    /\ transcript = ""
    /\ route = "none"
    /\ response = ""
    /\ permRet = "none"
    /\ permText = ""
    /\ permState = "none"
    /\ spoken = MsgAck
    /\ sentences = <<>>
    /\ seg = 0
    /\ proc = "none"
    /\ queue = FALSE
    /\ stop = FALSE
    /\ lpc = "idle"
    /\ lheard = ""
    /\ trace = <<>>
    /\ recStream = "none"
    /\ shutdownHeard = FALSE
    /\ lset = FALSE
    /\ interrupted = FALSE
    /\ methods = <<>>
    /\ max_elements_per_shard = 1
    /\ clusters = "none"

RouterNext == RouteQuery

RouterSpec == RouterInit /\ [][RouterNext]_vars


\* ------------------------------------------------------------------------
\* Properties
\* ------------------------------------------------------------------------

Events(kind) == {i \in DOMAIN trace : trace[i] \in kind}

ChatPosts == {"post_local", "post_unrestricted"}

OnlineActions == {"post_unrestricted", "search_get", "browser"}

C2_WebSearchFailsClosed ==
    (route = "search" /\ permState \in {"Denied", "Unclear", "NoResponse"}) =>
        /\ Events(NetActions) = {}
        /\ pc \in {"perm_return", "ws_permitted", "hvc_speak", "hvc_end"}
        /\ pc \in {"hvc_speak", "hvc_end"} => response = MsgStayingLocal

C2_Witness ==
    /\ route = "search"
    /\ permState = "Unclear"
    /\ trace = <<"refused">>
    /\ response = MsgStayingLocal
    /\ spoken = MsgStayingLocal
    /\ pc = "hvc_end"

C4_PermissionClassification ==
    (pc \in {"ws_permitted", "ai_permitted"} /\ permState /= "NoResponse") =>
        /\ permText \in {"yes", "sure", "go ahead"} =>
              (permState = "Granted" /\ Permitted)
        /\ permText \in {"no", "nope", "cancel"} =>
              (permState = "Denied" /\ ~Permitted)
        /\ permText \in {"", "maybe", "hmm"} =>
              (permState = "Unclear" /\ ~Permitted)

C4_Witness ==
    /\ pc = "ws_permitted"
    /\ permText = "maybe"
    /\ permState = "Unclear"
    /\ ~Permitted

\* C5 as stated: once the listener has set the stop event during an
\* interruptible speak, no sentence is started any more, a sentence found
\* playing is terminated, and the call returns True.
C5_NoSegmentAfterFlag ==
    [][/\ (lset /\ pc = "swi_popen") => pc' = "swi_popen"
       /\ (lset /\ pc = "swi_poll" /\ proc = "running" /\ pc' /= pc) =>
              proc' = "terminated"
       /\ (lset /\ pc = "swi_get" /\ pc' /= pc) => pc' = "hvc_ack"]_vars

C7_InterruptionGoesToRecording ==
    interrupted => (pc \in {"hvc_ack", "hvc_record"} /\ proc /= "running")

C7_Witness ==
    /\ interrupted
    /\ pc = "hvc_record"
    /\ seg <= Len(sentences)
    /\ proc = "terminated"

\* C8 as stated: once the listener has recognised the shutdown phrase while
\* the response was playing, the main thread does not finish the turn or take
\* a new command: playback is cancelled and shutdown follows.
C8_ShutdownPhraseStopsPlayback ==
    shutdownHeard => pc \notin {"swi_popen", "hvc_end", "hvc_ack"}

\* C8 as amended: the listener ignores a transcript that holds the shutdown
\* phrase without the wake word: its step (the thread's own, not the start of
\* a new call's thread) goes back to reading, sets no event, puts
\* nothing in the queue, and the main thread, is_listening and the playing
\* sentence are left as they are; the main thread stays in the speech loop
\* or finishes the turn, and does not enter shutdown on that account.
C8_ShutdownPhraseIgnored ==
    [][/\ (/\ lpc = "l_match" /\ lpc' \notin {"l_match", "l_setup"}
           /\ Contains(lheard, shutdown_phrase)
           /\ ~Contains(lheard, wake_word)) =>
              (lpc' = "l_loop" /\ UNCHANGED <<stop, queue, lset, pc, is_listening, proc>>)
       /\ shutdownHeard' =>
              pc' \in {"swi_check", "swi_popen", "swi_poll", "swi_stop", "swi_get",
                       "hvc_end", "hvc_ack"}]_vars

C8_Witness ==
    /\ shutdownHeard
    /\ pc = "swi_poll"
    /\ proc = "running"
    /\ seg < Len(sentences)
    /\ ~stop
    /\ ~queue

\* C9 as stated: when listen_for_wake_word has used up its attempts to open
\* the capture stream and returned, run aborts: it does not go round its
\* loop to call listen_for_wake_word again.
C9_AbortAfterOpenRetries ==
    [][(pc = "run_false" /\ attempt = OpenAttempts /\ pc' /= pc) =>
           pc' \in {"exited", "shutdown", "terminated"}]_vars

\* C10: an empty transcript of the recorded command leads to the
\* clarification "I couldn't understand that" and to the end of the turn
\* without routing (no category, no permission request, no network action),
\* and from the end of the turn the main thread goes back to
\* listen_for_wake_word.
C10_EmptyTranscriptNotRouted ==
    [][/\ (pc = "hvc_stt" /\ pc' /= pc /\ utter' = "") => pc' = "hvc_notunderstood"
       /\ (pc = "hvc_notunderstood" /\ pc' /= pc) =>
              /\ spoken' = MsgNotUnderstood
              /\ pc' = "hvc_end"
              /\ route' = "none" /\ trace' = <<>> /\ permState' = "none"
       /\ (pc = "hvc_end" /\ spoken = MsgNotUnderstood /\ pc' /= pc) =>
              (pc' = "run_loop" /\ is_listening')
       /\ (pc = "run_loop" /\ is_listening /\ pc' /= pc) => pc' = "lfw_outer"]_vars

C10_Witness ==
    /\ pc = "hvc_end"
    /\ utter = ""
    /\ spoken = MsgNotUnderstood
    /\ route = "none"
    /\ trace = <<>>
    /\ permState = "none"

\* ------------------------------------------------------------------------
\* The language-model call, routing, sessions, streams and signals
\* ------------------------------------------------------------------------

AiApologies == {MsgCouldNotProcess, MsgQueryError}

\* C11: a call of the chat endpoint (local-only or unrestricted) always
\* returns to handle_voice_command with a text: the reply of a 200 response,
\* or one of the two apologies when the call fails (another status, a
\* timeout, a connection error, a reply without choices/message/content);
\* it never ends the run and never clears is_listening.  An apology is then
\* spoken in one piece, the turn ends, and run's loop goes on listening with
\* is_listening still True.
C11_AiFailureApologises ==
    [][/\ (pc \in {"ai_post", "ai_post2"} /\ pc' /= pc) =>
              /\ pc' \in {"hvc_speak", "perm_ask"}
              /\ is_listening' /\ audio' = "ready"
              /\ pc' = "hvc_speak" =>
                    response' \in AiApologies \cup {Strip(r) : r \in AiReplies}
       /\ (route = "ai" /\ response \in AiApologies /\ pc = "hvc_speak" /\ pc' /= pc) =>
              (spoken' = response /\ pc' = "hvc_end" /\ is_listening')
       /\ (route = "ai" /\ response \in AiApologies /\ pc = "hvc_end" /\ pc' /= pc) =>
              (pc' = "run_loop" /\ is_listening' /\ audio' = "ready")]_vars

C11_Witness ==
    /\ route = "ai"
    /\ trace = <<"post_local">>
    /\ response = MsgQueryError
    /\ spoken = MsgQueryError
    /\ pc = "hvc_end"
    /\ is_listening

\* The text as route_query looks at it
RoutedText == Strip(Lower(utter))

HasShutdownPhrase == Contains(RoutedText, "take a break")

TimePattern == \E w \in {"time", "clock", "what time"} : Contains(RoutedText, w)

DatePattern == \E w \in {"date", "today", "what day"} : Contains(RoutedText, w)

ConversionTerm ==
    \E w \in {"convert", "celsius", "fahrenheit", "meters", "feet", "pounds",
              "kilograms"} : Contains(RoutedText, w)

SearchPattern == StartsWith(RoutedText, "search") \/ Contains(RoutedText, "look up")

\* C12: once route_query has decided on a text that holds "take a break" (in
\* any letter case, with any text around it, also text that matches the
\* time, date, conversion or search patterns), the decision is shutdown with
\* the response "Okay, bye!".
C12_ShutdownPhraseDecides ==
    (route /= "none" /\ HasShutdownPhrase) =>
        (route = "shutdown" /\ response = MsgBye /\ pc = "hvc_bye")

C12_Witness ==
    /\ utter = "Search the time to Take A Break today in meters"
    /\ TimePattern /\ DatePattern /\ ConversionTerm /\ SearchPattern
    /\ route = "shutdown"
    /\ pc = "hvc_bye"

InRouteQuery ==
    pc \in {"perm_ask", "perm_record", "perm_stt", "perm_return", "ws_permitted",
            "ws_options", "ws_choice", "fetch_start", "fetch_get", "browser",
            "ai_post", "ai_permitted", "ai_post2"}

\* C14 as stated: from the call of route_query to its return nothing is
\* spoken, nothing is recorded, and no HTTP request or browser launch is made:
\* route_query returns its decision at once.
C14_RouteQueryPure ==
    [][(pc = "hvc_route" /\ pc' /= pc) =>
           (pc' \in {"hvc_bye", "hvc_speak"} /\ spoken' = spoken /\ trace' = trace)]_vars

\* C14 as amended: the decision itself (and the answer of the shutdown, time,
\* date and conversion categories) is computed without speech, recording or
\* network action; for the search and AI categories route_query runs the
\* handler before it returns: by the return of a search the permission
\* question has been spoken and its answer recorded, and by the return of an
\* AI query the local-only POST has been sent.
C14_RouteQueryRunsHandlers ==
    [][/\ (pc = "hvc_route" /\ pc' /= pc) =>
              /\ spoken' = spoken /\ trace' = trace
              /\ route' \in {"shutdown", "time", "date", "conversion"} =>
                    pc' \in {"hvc_bye", "hvc_speak"}
              /\ route' = "search" => pc' = "perm_ask"
              /\ route' = "ai" => pc' = "ai_post"
       /\ (pc /= "hvc_speak" /\ pc' = "hvc_speak") =>
              /\ route' \in {"time", "date", "conversion"} => trace' = <<>>
              /\ route' = "search" =>
                    (trace' /= <<>> /\ trace'[1] \in {"granted", "refused"})
              /\ route' = "ai" => (trace' /= <<>> /\ trace'[1] = "post_local")
       /\ (InRouteQuery /\ pc' /= pc) => (InRouteQuery' \/ pc' = "hvc_speak")]_vars

C14_Witness ==
    /\ route = "search"
    /\ pc = "hvc_speak"
    /\ spoken = MsgPermission
    /\ permState = "Denied"
    /\ trace = <<"refused">>

C16_SearchPatternRoutesToSearch ==
    (route /= "none" /\ SearchPattern /\ ~HasShutdownPhrase) =>
        (route = "search" /\ pc = "perm_ask")

ArithmeticQueries == {"what is 2 + 2", "calculate 15 times 37"}

\* C17 as stated: once route_query has decided on an arithmetic query, the
\* decision is the AI, not the time, date, conversion or search handler.
C17_ArithmeticRoutesToAi ==
    (route /= "none" /\ utter \in ArithmeticQueries) =>
        (route = "ai" /\ pc = "ai_post")

OpensCapture ==
    \/ pc \in {"hvc_record", "perm_record", "ws_choice"} /\ pc' /= pc
    \/ pc = "lfw_open" /\ pc' = "lfw_listen"

\* C19 as stated: the listener's capture stream is closed before the main
\* thread opens a capture stream in record_command or listen_for_wake_word,
\* and the two are never open together.
C19_OneCaptureStream ==
    [][/\ OpensCapture => ~ListenerStreamOpen
       /\ ~(MainStreamOpen' /\ ListenerStreamOpen')]_vars

\* C20 as stated: a termination signal, whatever the main thread is doing,
\* ends the run with is_listening False and the audio device released, and
\* from then on nothing listens, records or speaks: no espeak process is
\* still playing, and no thread of the program takes a step.
C20_SignalStopsEverything ==
    [][/\ pc' = "terminated" =>
              (~is_listening' /\ audio' = "terminated" /\ proc' /= "running")
       /\ pc = "terminated" => UNCHANGED <<pc, spoken, lpc, queue, stop, trace>>]_vars

\* ------------------------------------------------------------------------
\* Listening for the shutdown phrase; the order of a turn
\* ------------------------------------------------------------------------

\* C21 as stated: while listen_for_wake_word is listening, every recognised
\* transcript that contains the shutdown phrase, whatever else it contains,
\* takes the run to the farewell and from there to shutdown.
C21_ShutdownPhraseWhileListening ==
    [][/\ (pc = "lfw_listen" /\ pc' /= pc /\ Contains(transcript', "take a break"))
              => pc' = "run_bye"
       /\ (pc = "run_bye" /\ pc' /= pc) => (spoken' = MsgBye /\ pc' = "shutdown")]_vars

\* The steps of speak and speak_with_interruption for the answer of a turn
SpeakingPcs == {"hvc_speak", "swi_check", "swi_popen", "swi_poll", "swi_stop", "swi_get"}

\* What route_query's handlers say before the decision is returned
RoutingQuestions ==
    {MsgPermission, MsgOptions, MsgSearching, MsgNoDirectAnswer, MsgSearchTrouble}

\* C22 as stated: within a turn recording is complete before routing and
\* routing before speaking, so that from the call of route_query to its return
\* no audio is recorded and nothing is spoken.
C22_StrictPhases ==
    [][InRouteQuery => (spoken' = spoken /\ recStream' = recStream)]_vars

\* C22, amended: the command is recorded, then recognised, then routed, and
\* the answer is spoken only once route_query has returned; while route_query
\* runs, only its handlers' own questions are spoken and only their answers
\* recorded; while the answer is spoken the command, the decision and the
\* answer do not change, and a decision once made is only ever cleared, by the
\* start of the next turn.
C22_TurnOrder ==
    [][/\ (pc' = "hvc_stt" /\ pc' /= pc) => pc = "hvc_record"
       /\ (pc' = "hvc_route" /\ pc' /= pc) => (pc = "hvc_stt" /\ route' = "none")
       /\ (pc' = "hvc_speak" /\ pc' /= pc) =>
              ((pc = "hvc_route" \/ InRouteQuery) /\ route' \notin {"none", "shutdown"})
       /\ (InRouteQuery /\ spoken' /= spoken) => spoken' \in RoutingQuestions
       /\ (InRouteQuery /\ recStream' /= recStream) => pc \in {"perm_record", "ws_choice"}
       /\ pc \in SpeakingPcs => UNCHANGED <<utter, route, response>>
       /\ (route /= "none" /\ route' /= route) =>
              (route' = "none" /\ pc \in {"hvc_ack", "hvc_end"})]_vars

\* A turn that was interrupted while its answer was spoken has started the
\* next turn: the decision is cleared and the new command is to be recorded
C22_Witness ==
    /\ pc = "hvc_record"
    /\ interrupted
    /\ route = "none"
    /\ sentences /= <<>>
    /\ stop

\* ------------------------------------------------------------------------
\* Conversions
\* ------------------------------------------------------------------------

NamesBothTemperatures ==
    Contains(RoutedText, "celsius") /\ Contains(RoutedText, "fahrenheit")

NamesBothLengths == Contains(RoutedText, "feet") /\ Contains(RoutedText, "meters")

\* Position of the first occurrence of word in RoutedText
FirstAt(word) ==
    SetMin({k \in 1..(Len(RoutedText) - Len(word) + 1) :
               SubSeq(RoutedText, k, k + Len(word) - 1) = word})

\* The answers of the program's handle_conversion for the conversion texts
ConversionAnswer(text) ==
    CASE text = "what is 32 fahrenheit in celsius" ->
             "32.0 degrees Fahrenheit is 0.0 degrees Celsius"
      [] text = "convert 32 fahrenheit to celsius" ->
             "32.0 degrees Fahrenheit is 0.0 degrees Celsius"
      [] text = "32 celsius to fahrenheit" ->
             "32.0 degrees Celsius is 89.6 degrees Fahrenheit"
      [] text = "100 celsius in fahrenheit please" ->
             "100.0 degrees Celsius is 212.0 degrees Fahrenheit"
      [] text = "how many meters in 10 feet" -> "10.0 meters is 32.81 feet"
      [] text = "search 10 meters in feet" -> "10.0 meters is 32.81 feet"
      [] OTHER -> None

\* C23: once route_query has decided on a text that names both temperature
\* units, or both feet and meters, and holds a number, and matches neither
\* the shutdown phrase nor the time or date pattern, the decision is the
\* conversion: the answer converts the first number of the text from the unit
\* named first to the other one, it is the answer of the turn, and up to the
\* end of the turn no permission is requested and no request is sent.
C23_ConversionAnsweredLocally ==
    (/\ route /= "none"
     /\ HasNumber(utter)
     /\ NamesBothTemperatures \/ NamesBothLengths
     /\ ~HasShutdownPhrase /\ ~TimePattern /\ ~DatePattern) =>
        /\ route = "conversion"
        /\ response = ConversionAnswer(utter)
        /\ StartsWith(response,
              FormatFloat(FirstNumber(utter)) \o
                (IF NamesBothTemperatures
                 THEN (IF FirstAt("celsius") < FirstAt("fahrenheit")
                       THEN " degrees Celsius is " ELSE " degrees Fahrenheit is ")
                 ELSE (IF FirstAt("feet") < FirstAt("meters")
                       THEN " feet is " ELSE " meters is ")))
        /\ pc \in {"hvc_speak", "hvc_end"}
        /\ pc = "hvc_end" => spoken = response
        /\ trace = <<>>
        /\ permState = "none"

C23_Witness ==
    /\ utter = "what is 32 fahrenheit in celsius"
    /\ route = "conversion"
    /\ pc = "hvc_end"
    /\ spoken = "32.0 degrees Fahrenheit is 0.0 degrees Celsius"
    /\ trace = <<>>

\* ------------------------------------------------------------------------
\* The permission answer; capture streams of record_command
\* ------------------------------------------------------------------------

\* C26 as stated: request_online_permission has returned True only if the
\* transcribed answer holds an affirmative word and no negative word.
C26_NegativeWordNeverGrants ==
    (pc \in {"ws_permitted", "ai_permitted"} /\ Permitted) =>
        /\ AnyIn(affirmative_words, Strip(Lower(permText)))
        /\ ~AnyIn(negative_words, Strip(Lower(permText)))

\* C27 as stated: the capture stream a call of record_command opened is
\* closed when the call has returned, on every path, a failed read included.
C27_StreamClosedOnReturn == recStream /= "open"

\* ------------------------------------------------------------------------
\* The value speak returns
\* ------------------------------------------------------------------------

\* C29: speak returns True, and a new command is captured, only with an item
\* in the queue of that call, which only the listener of that call puts
\* there, and only for a transcript that holds the wake word.  A short text
\* is spoken without a listener and returns False; with an empty queue (the
\* stop flag set by speak_with_interruption itself, a listener that failed to
\* set up or to read) the call returns False.  Speech with
\* allow_interruption=False never sets the result.
C29_InterruptedOnlyByWakeWord ==
    [][/\ (interrupted' /\ ~interrupted) => (pc = "swi_get" /\ queue)
       /\ (queue' /\ ~queue) => (lpc = "l_put" /\ lpc' = "l_set")
       /\ (lpc' = "l_put" /\ lpc /= "l_put") =>
              (lpc = "l_match" /\ Contains(lheard, wake_word))
       /\ (pc = "hvc_speak" /\ pc' /= pc /\ Len(response) < InterruptThreshold) =>
              (pc' = "hvc_end" /\ ~interrupted' /\ lpc' = lpc)
       /\ (pc = "swi_get" /\ pc' /= pc /\ ~queue) =>
              (pc' = "hvc_end" /\ ~interrupted')
       /\ (pc' = "hvc_ack" /\ pc /= "hvc_ack") =>
              \/ pc = "swi_get" /\ queue
              \/ pc = "lfw_listen" /\ Contains(transcript', wake_word)]_vars

\* speak_with_interruption has returned False although the stop flag is set:
\* it was set by the call itself, the listener never set it
C29_Witness ==
    /\ pc = "hvc_end"
    /\ sentences /= <<>>
    /\ seg > Len(sentences)
    /\ stop
    /\ ~lset
    /\ ~queue
    /\ ~interrupted

\* ------------------------------------------------------------------------
\* Failures
\* ------------------------------------------------------------------------

\* C25 as stated: a turn that ends has said something after the
\* acknowledgement (the answer, or an apology or clarification for a failed
\* recording, recognition or routing), and the process goes to shutdown only
\* with the farewell to the shutdown phrase: no failure, a main-loop error
\* included, ends the process.
C25_FailuresSpokenNeverFatal ==
    [][/\ (pc = "hvc_noaudio" /\ pc' /= pc) => spoken' = MsgNoAudio
       /\ (pc = "hvc_route" /\ pc' = "hvc_end") => spoken' = MsgTrouble
       /\ (pc' = "shutdown" /\ pc /= "shutdown") => spoken' = MsgBye]_vars

\* The listener thread of the latest speak_with_interruption call is running
ListenerRunning == lpc \notin {"idle", "l_done"}

\* C28 as stated: once speak_with_interruption has returned (normally,
\* interrupted, or through its exception handler) with its listener thread
\* still running, the thread eventually leaves its loop and closes its stream
\* (unless the process ends first, or the next call starts a new listener).
C28_ListenerEventuallyExits ==
    (pc \in {"hvc_end", "hvc_ack"} /\ ListenerRunning)
        ~> (lpc = "l_done" \/ pc = "swi_check" \/ ~ProcessAlive)

\* ------------------------------------------------------------------------
\* split_into_sentences
\* ------------------------------------------------------------------------

RECURSIVE JoinSegments(_)
JoinSegments(segments) ==
    IF segments = <<>> THEN "" ELSE Head(segments) \o " " \o JoinSegments(Tail(segments))

\* C24 as stated: of the segments split_into_sentences returns, each one
\* other than the last has at least 5 words, and the segments in order hold
\* the non-empty sentences of the text, each exactly once.
C24_ShortFragmentsMerged ==
    pc = "split_done" =>
        /\ \A i \in 1..(Len(sentences) - 1) : WordCount(sentences[i]) >= MinWords
        /\ StripNonEmpty(SplitFrom(JoinSegments(sentences), 1))
              = StripNonEmpty(SplitFrom(response, 1))

\* ------------------------------------------------------------------------
\* cluster_evenly
\* ------------------------------------------------------------------------

\* The places (cluster, position) of method m in the methods_N clusters
PlacesOf(m) ==
    {cp \in (1..Len(clusters)) \X (1..MaxMethods) :
        cp[2] <= Len(clusters[cp[1]]) /\ clusters[cp[1]][cp[2]] = m}

\* C30 as stated: for a single class with more methods than
\* max_elements_per_shard, every method is in exactly one methods_N cluster
\* and no methods_N cluster holds more than max_elements_per_shard methods.
C30_EachMethodInOneCluster ==
    pc = "cluster_done" =>
        /\ \A m \in 1..Len(methods) : Cardinality(PlacesOf(m)) = 1
        /\ \A c \in 1..Len(clusters) : Len(clusters[c]) <= max_elements_per_shard

=============================================================================
